---- MODULE Spec2Model ----
(***************************************************************************)
(* GuildMember (src/src/structures/GuildMember.js): one user's membership  *)
(* of one guild.  The member keeps raw attributes and a stored list of     *)
(* role IDs; `roles` resolves that list against the guild's role registry  *)
(* on every read; the mutation methods hand one request to the REST        *)
(* methods of the client and change nothing locally.                       *)
(*                                                                         *)
(* JavaScript values: an optional value (`?string`, `?boolean`, null or    *)
(* undefined) is a sequence of length at most one, <<>> being absent.  An  *)
(* object property that was never assigned is a field missing from the     *)
(* record.  A Role object is the record [id |-> ...]; a bare role ID is a  *)
(* string.  An element of a role array is tagged with what it is,          *)
(* [isRole |-> TRUE, id |-> r] being a Role object and                     *)
(* [isRole |-> FALSE, id |-> r] the string r.                              *)
(***************************************************************************)
EXTENDS Integers, Sequences, FiniteSets, TLC

VARIABLES
  this,      \* the GuildMember's own properties
  guild,     \* this.guild: its id and its role registry (guild.roles)
  inflight,  \* requests handed to client.rest.methods, not yet answered
  lastOp,    \* history: the name of the operation of the last step
  views,     \* history: results of the reads of `roles` since the last setup (last two)
  applied,   \* history: the snapshot of the last setup, and how it differed from the one before
  caller     \* a calling script issuing addRoles([A, B]) and then removeRoles([A])

vars == <<this, guild, inflight, lastOp, views, applied, caller>>

-----------------------------------------------------------------------------
(* Bounds *)

\* longest role list of a snapshot or of an argument
MaxLen == 2
\* longest role list a request may carry (lists grow by addRoles)
MaxList == 3
\* most requests in flight at once
MaxPending == 1

-----------------------------------------------------------------------------
(* Values *)

Undefined == <<>>

GuildID == "G"

RoleIDs == {"G", "R1", "R2"}

\* the role IDs the calling script chooses A and B from, and its member's lists
CallerIDs == {"R1", "R2", "R3"}

\* sequences over S of length at most n
RECURSIVE SeqsUpTo(_, _)
SeqsUpTo(S, n) ==
  IF n = 0 THEN {<<>>}
  ELSE LET shorter == SeqsUpTo(S, n - 1)
       IN shorter \cup {Append(s, x) : s \in {t \in shorter : Len(t) = n - 1}, x \in S}

Range(s) == {s[i] : i \in 1..Len(s)}

NoDuplicates(s) == \A i, j \in 1..Len(s) : i # j => s[i] # s[j]

\* the role lists the platform sends: the roles explicitly assigned, each once,
\* the default role never among them
PlatformRoleLists == {s \in SeqsUpTo(RoleIDs \ {GuildID}, MaxLen) : NoDuplicates(s)}

AnyRoleLists == SeqsUpTo(RoleIDs, MaxLen)

CallerRoleLists == {s \in SeqsUpTo(CallerIDs, MaxLen) : NoDuplicates(s)}

Role(id) == [id |-> id]

RoleEntry(id) == [isRole |-> TRUE, id |-> id]

IDEntry(id) == [isRole |-> FALSE, id |-> id]

AsIDEntries(ids) == [i \in 1..Len(ids) |-> IDEntry(ids[i])]

AsRoleEntries(ids) == [i \in 1..Len(ids) |-> RoleEntry(ids[i])]

EntryIDs(items) == [i \in 1..Len(items) |-> items[i].id]

\* Collection<string, Role>: the values in insertion order, each key once
CollectionOf(ids) == [coll |-> TRUE, items |-> AsRoleEntries(ids)]

\* Role[]
RoleArrayOf(ids) == [coll |-> FALSE, items |-> AsRoleEntries(ids)]

\* string[]
IDArrayOf(ids) == [coll |-> FALSE, items |-> AsIDEntries(ids)]

\* the arguments a caller may pass as `roles`
RoleArgs(lists) ==
  {CollectionOf(s) : s \in {t \in lists : NoDuplicates(t)}}
    \cup {RoleArrayOf(s) : s \in lists}
    \cup {IDArrayOf(s) : s \in lists}

\* new Date(string).getTime(), in seconds since the epoch (the model's integers
\* are 32 bits wide): three spellings of one instant and a later instant
DateStrings ==
  {"2021-01-01T00:00:00Z", "2021-01-01T00:00:00.000Z", "2022-01-01T00:00:00Z"}

getTime(joined_at) ==
  CASE joined_at = "2021-01-01T00:00:00Z" -> 1609459200
    [] joined_at = "2021-01-01T00:00:00.000Z" -> 1609459200
    [] joined_at = "2022-01-01T00:00:00Z" -> 1640995200

\* the property `name` of object `o`, undefined when it was never assigned
Get(o, name) == IF name \in DOMAIN o THEN o[name] ELSE Undefined

-----------------------------------------------------------------------------
(* The member *)

\* constructor(guild, data) without data: user = {}, _roles = []
constructor == [user |-> <<>>, _roles |-> <<>>]

\* mutant: a snapshot without a nickname leaves the nickname as it was
setup_keepsNickname(self, data) ==
  [serverDeaf |-> data.deaf,
   serverMute |-> data.mute,
   selfMute |-> data.self_mute,
   selfDeaf |-> data.self_deaf,
   voiceSessionID |-> data.session_id,
   voiceChannelID |-> data.channel_id,
   speaking |-> Get(self, "speaking"),
   nickname |-> IF data.nick = Undefined THEN Get(self, "nickname") ELSE data.nick,
   user |-> data.user,
   _roles |-> data.roles,
   _joinDate |-> getTime(data.joined_at)]

setup(self, data) ==
  [serverDeaf |-> data.deaf,
   serverMute |-> data.mute,
   selfMute |-> data.self_mute,
   selfDeaf |-> data.self_deaf,
   voiceSessionID |-> data.session_id,
   voiceChannelID |-> data.channel_id,
   speaking |-> Get(self, "speaking"),
   nickname |-> data.nick,
   user |-> data.user,
   _roles |-> data.roles,
   _joinDate |-> getTime(data.joined_at)]

\* get joinDate(): a new Date of the stored time
joinDate(self) == [time |-> self._joinDate]

\* Collection.set: a Map keeps a key's first position and takes the new value
CollectionSet(list, key, value) ==
  IF \E i \in 1..Len(list) : list[i].key = key
  THEN [i \in 1..Len(list) |->
          IF list[i].key = key THEN [key |-> key, value |-> value] ELSE list[i]]
  ELSE Append(list, [key |-> key, value |-> value])

\* the loop of get roles() over this._roles
RECURSIVE rolesLoop(_, _, _)
rolesLoop(list, ids, registry) ==
  IF ids = <<>> THEN list
  ELSE LET roleID == Head(ids)
       IN rolesLoop(IF roleID \in DOMAIN registry
                      THEN CollectionSet(list, registry[roleID].id, registry[roleID])
                      ELSE list,
                    Tail(ids), registry)

\* mutant: the default role is taken for granted and looked up without the guard's
\* effect on order: it is added after the stored roles
roles_everyoneLast(self, g) ==
  LET list == rolesLoop(<<>>, self._roles, g.roles)
  IN IF g.id \in DOMAIN g.roles
       THEN CollectionSet(list, g.roles[g.id].id, g.roles[g.id])
       ELSE list

\* mutant: the default role is never added
roles_noEveryone(self, g) == rolesLoop(<<>>, self._roles, g.roles)

\* mutant: the collection built by the first read is kept and returned again
roles_cached(self, g) ==
  IF views # <<>> THEN views[Len(views)]
  ELSE rolesLoop(IF g.id \in DOMAIN g.roles
                   THEN CollectionSet(<<>>, g.roles[g.id].id, g.roles[g.id])
                   ELSE <<>>,
                 self._roles, g.roles)

\* get roles()
roles(self, g) ==
  LET list == IF g.id \in DOMAIN g.roles
                THEN CollectionSet(<<>>, g.roles[g.id].id, g.roles[g.id])
                ELSE <<>>
  IN rolesLoop(list, self._roles, g.roles)

Keys(list) == [i \in 1..Len(list) |-> list[i].key]

-----------------------------------------------------------------------------
(* The mutation methods.  Each returns what the call leaves behind: `this`, *)
(* the member's properties after the call, and `submit`, the request handed *)
(* to client.rest.methods.                                                  *)

\* the inclusive upper end of the documented range of deleteDays
MaxDeleteDays == 7

\* client.rest.methods.updateGuildMember(this, data)
updateGuildMember(data) == [method |-> "updateGuildMember", data |-> data]

\* client.rest.methods.kickGuildMember(this.guild, this)
kickGuildMember == [method |-> "kickGuildMember"]

\* client.rest.methods.banGuildMember(this.guild, this, deleteDays)
banGuildMember(deleteDays) == [method |-> "banGuildMember", deleteDays |-> deleteDays]

edit(self, data) == [this |-> self, submit |-> updateGuildMember(data)]

setMute(self, mute) == edit(self, [mute |-> mute])

setDeaf(self, deaf) == edit(self, [deaf |-> deaf])

setVoiceChannel(self, channel) == edit(self, [channel |-> channel])

setNickname(self, nick) == edit(self, [nick |-> nick])

setRoles(self, newRoles) == edit(self, [roles |-> newRoles])

\* mutant: the additions are put in front of the stored list
addRoles_prepend(self, newRoles) ==
  edit(self, [roles |-> [coll |-> FALSE,
                         items |-> IF newRoles.coll
                                     THEN AsIDEntries(EntryIDs(newRoles.items))
                                            \o AsIDEntries(self._roles)
                                     ELSE newRoles.items \o AsIDEntries(self._roles)]])

addRoles(self, newRoles) ==
  LET allRoles == IF newRoles.coll
                    THEN AsIDEntries(self._roles) \o AsIDEntries(EntryIDs(newRoles.items))
                    ELSE AsIDEntries(self._roles) \o newRoles.items
  IN edit(self, [roles |-> [coll |-> FALSE, items |-> allRoles]])

addRole(self, role) == addRoles(self, [coll |-> FALSE, items |-> <<role>>])

\* Array.indexOf, counted from 0, -1 when absent
indexOf(array, x) ==
  IF \E i \in 1..Len(array) : array[i] = x
  THEN (CHOOSE i \in 1..Len(array) : array[i] = x /\ \A j \in 1..(i - 1) : array[j] # x) - 1
  ELSE 0 - 1

\* Array.splice(index, 1)
splice(array, index) ==
  [i \in 1..(Len(array) - 1) |-> IF i <= index THEN array[i] ELSE array[i + 1]]

\* the loops of removeRoles: both branches look the role's ID up
RECURSIVE removeLoop(_, _)
removeLoop(allRoles, items) ==
  IF items = <<>> THEN allRoles
  ELSE LET index == indexOf(allRoles, Head(items).id)
       IN removeLoop(IF index >= 0 THEN splice(allRoles, index) ELSE allRoles, Tail(items))

\* mutant: the stored array is spliced itself, not a copy of it
removeRoles_noSlice(self, oldRoles) ==
  LET allRoles == removeLoop(self._roles, oldRoles.items)
  IN [this |-> [self EXCEPT !._roles = allRoles],
      submit |-> updateGuildMember([roles |-> [coll |-> FALSE, items |-> AsIDEntries(allRoles)]])]

removeRoles(self, oldRoles) ==
  LET allRoles == removeLoop(self._roles, oldRoles.items)
  IN edit(self, [roles |-> [coll |-> FALSE, items |-> AsIDEntries(allRoles)]])

removeRole(self, role) == removeRoles(self, [coll |-> FALSE, items |-> <<role>>])

kick(self) == [this |-> self, submit |-> kickGuildMember]

\* ban(deleteDays = 0): the default stands in for an argument left out
ban(self, arg) ==
  LET deleteDays == IF arg = Undefined THEN 0 ELSE arg[1]
  IN [this |-> self, submit |-> banGuildMember(deleteDays)]

-----------------------------------------------------------------------------
(* Snapshots: the data the platform sends for a member *)

SnapshotFields ==
  {"deaf", "mute", "self_mute", "self_deaf", "session_id", "channel_id",
   "nick", "user", "roles", "joined_at"}

\* a member outside any voice channel, with the given roles
RoleSnapshot(ids) ==
  [deaf |-> FALSE, mute |-> FALSE, self_mute |-> FALSE, self_deaf |-> FALSE,
   session_id |-> Undefined, channel_id |-> Undefined,
   nick |-> <<"Al">>, user |-> [id |-> "U1"], roles |-> ids,
   joined_at |-> "2021-01-01T00:00:00Z"]

\* well-formed snapshots varying in every field; the session and the channel
\* are both absent or both present, and of self-mute and self-deaf one is set
FullSnapshots ==
  {[deaf |-> d, mute |-> m, self_mute |-> sm, self_deaf |-> ~sm,
    session_id |-> v[1], channel_id |-> v[2],
    nick |-> n, user |-> u, roles |-> r, joined_at |-> j] :
     d \in BOOLEAN, m \in BOOLEAN, sm \in BOOLEAN,
     v \in {<<Undefined, Undefined>>, <<(<<"session1">>), (<<"channel1">>)>>},
     n \in {Undefined, <<"Al">>},
     u \in {[id |-> "U1"], [id |-> "U2"]},
     r \in {<<"R1">>, <<"R2", "R1">>},
     j \in DateStrings}

\* what the platform holds once a request was carried out: the requested
\* fields of `base` replaced, role objects sent as their IDs
Carried(base, data) ==
  [f \in SnapshotFields |->
     CASE f = "mute" /\ "mute" \in DOMAIN data -> data.mute
       [] f = "deaf" /\ "deaf" \in DOMAIN data -> data.deaf
       [] f = "channel_id" /\ "channel" \in DOMAIN data -> <<data.channel>>
       [] f = "nick" /\ "nick" \in DOMAIN data -> <<data.nick>>
       [] f = "roles" /\ "roles" \in DOMAIN data -> EntryIDs(data.roles.items)
       [] OTHER -> base[f]]

-----------------------------------------------------------------------------
(* History *)

\* the snapshot now applied, and whether it differs from the one applied
\* before it in every field
Recorded(data) ==
  [data |-> <<data>>,
   allChanged |-> /\ applied.data # <<>>
                  /\ \A f \in SnapshotFields : applied.data[1][f] # data[f]]

NoCaller == [pc |-> "none"]

\* the answer to request q, noted by the calling script
Noted(c, q, ok) ==
  IF c.pc = "none" THEN c
  ELSE [c EXCEPT !.answers =
          Append(@, [call |-> IF <<q>> = c.addReq THEN "addRoles" ELSE "removeRoles",
                     ok |-> ok])]

RemoveAt(s, i) == [k \in 1..(Len(s) - 1) |-> IF k < i THEN s[k] ELSE s[k + 1]]

\* object o with its property `name` assigned
Assigned(o, name, value) ==
  [n \in DOMAIN o \cup {name} |-> IF n = name THEN value ELSE o[n]]

-----------------------------------------------------------------------------
(* Actions *)

\* setup(data) on the existing member: a later snapshot is applied
Refresh(data) ==
  /\ this' = setup(this, data)
  /\ lastOp' = "setup"
  /\ views' = <<>>
  /\ applied' = Recorded(data)
  /\ UNCHANGED <<guild, inflight, caller>>

\* the voice-activity path assigns member.speaking
VoiceActivity(speaking) ==
  /\ this' = Assigned(this, "speaking", <<speaking>>)
  /\ lastOp' = "speaking"
  /\ UNCHANGED <<guild, inflight, views, applied, caller>>

\* the guild gains a role: guild.roles.set(role.id, role)
GuildRolesSet(id) ==
  /\ id \notin DOMAIN guild.roles
  /\ guild' = [guild EXCEPT !.roles = [k \in DOMAIN @ \cup {id} |-> Role(k)]]
  /\ lastOp' = "guild.roles.set"
  /\ UNCHANGED <<this, inflight, views, applied, caller>>

\* the guild loses a role: guild.roles.delete(id)
GuildRolesDelete(id) ==
  /\ id \in DOMAIN guild.roles
  /\ guild' = [guild EXCEPT !.roles = [k \in DOMAIN @ \ {id} |-> @[k]]]
  /\ lastOp' = "guild.roles.delete"
  /\ UNCHANGED <<this, inflight, views, applied, caller>>

\* member.roles is read
ReadRoles ==
  /\ views' = IF Len(views) = 2
                THEN <<views[2], roles(this, guild)>>
                ELSE Append(views, roles(this, guild))
  /\ lastOp' = "roles"
  /\ UNCHANGED <<this, guild, inflight, applied, caller>>

\* a mutation method is called: `result` is what it returns
Call(result, name) ==
  /\ Len(inflight) < MaxPending
  /\ result.submit.method = "updateGuildMember" /\ "roles" \in DOMAIN result.submit.data
       => Len(result.submit.data.roles.items) <= MaxList
  /\ this' = result.this
  /\ inflight' = Append(inflight, result.submit)
  /\ lastOp' = name
  /\ UNCHANGED <<guild, views, applied, caller>>

SetMute(mute) == Call(setMute(this, mute), "setMute")

SetDeaf(deaf) == Call(setDeaf(this, deaf), "setDeaf")

SetVoiceChannel(channel) == Call(setVoiceChannel(this, channel), "setVoiceChannel")

SetNickname(nick) == Call(setNickname(this, nick), "setNickname")

SetRoles(newRoles) == Call(setRoles(this, newRoles), "setRoles")

AddRole(role) == Call(addRole(this, role), "addRole")

AddRoles(newRoles) == Call(addRoles(this, newRoles), "addRoles")

RemoveRole(role) == Call(removeRole(this, role), "removeRole")

RemoveRoles(oldRoles) == Call(removeRoles(this, oldRoles), "removeRoles")

Kick == Call(kick(this), "kick")

Ban(arg) == Call(ban(this, arg), "ban")

\* the executor carries request i out; the member is refreshed with the
\* platform's snapshot (a kicked or banned member is not refreshed)
Resolve(i, bases) ==
  LET q == inflight[i]
  IN /\ IF q.method = "updateGuildMember"
          THEN \E base \in bases :
                 /\ this' = setup(this, Carried(base, q.data))
                 /\ applied' = Recorded(Carried(base, q.data))
                 /\ views' = <<>>
          ELSE UNCHANGED <<this, applied, views>>
     /\ inflight' = RemoveAt(inflight, i)
     /\ lastOp' = "resolved"
     /\ caller' = Noted(caller, q, TRUE)
     /\ UNCHANGED guild

\* the executor reports that request i failed
Reject(i) ==
  /\ inflight' = RemoveAt(inflight, i)
  /\ lastOp' = "rejected"
  /\ caller' = Noted(caller, inflight[i], FALSE)
  /\ UNCHANGED <<this, guild, views, applied>>

\* the calling script: addRoles([A, B]) ...
CallerAdd ==
  LET result == addRoles(this, IDArrayOf(<<caller.A, caller.B>>))
  IN /\ caller.pc = "add"
     /\ this' = result.this
     /\ inflight' = Append(inflight, result.submit)
     /\ caller' = [caller EXCEPT !.pc = "remove", !.addReq = <<result.submit>>]
     /\ lastOp' = "addRoles"
     /\ UNCHANGED <<guild, views, applied>>

\* ... followed by removeRoles([A]), before or after the first call was answered
CallerRemove ==
  LET result == removeRoles(this, IDArrayOf(<<caller.A>>))
  IN /\ caller.pc = "remove"
     /\ this' = result.this
     /\ inflight' = Append(inflight, result.submit)
     /\ caller' = [caller EXCEPT !.pc = "done", !.removeReq = <<result.submit>>,
                                 !.sequential = caller.answers # <<>>]
     /\ lastOp' = "removeRoles"
     /\ UNCHANGED <<guild, views, applied>>

-----------------------------------------------------------------------------
(* Specifications *)

\* new GuildMember(guild) or new GuildMember(guild, data), in a guild whose
\* roles have not been filled in yet
InitWith(snapshots) ==
  /\ this \in {constructor} \cup {setup(constructor, data) : data \in snapshots}
  /\ guild = [id |-> GuildID, roles |-> <<>>]
  /\ inflight = <<>>
  /\ lastOp = "constructor"
  /\ views = <<>>
  /\ applied = [data |-> <<>>, allChanged |-> FALSE]
  /\ caller = NoCaller

PlatformSnapshots == {RoleSnapshot(ids) : ids \in PlatformRoleLists}

\* the snapshots and arguments tried with the mutation methods: a string[],
\* a Collection and a Role[] that names the default role
TriedSnapshots == {RoleSnapshot(<<>>), RoleSnapshot(<<"R1">>)}

TriedRoleArgs ==
  {IDArrayOf(<<"R1">>), CollectionOf(<<"R2">>), RoleArrayOf(<<"R1", "G">>)}

TriedRoles == {IDEntry("R1"), RoleEntry("R2")}

TriedDays ==
  {Undefined, <<0 - 1>>, <<0>>, <<MaxDeleteDays>>, <<MaxDeleteDays + 1>>}

\* The mutation methods, the executor's answers and the platform's refreshes.
Init == InitWith(TriedSnapshots)

Next ==
  \/ \E data \in TriedSnapshots : Refresh(data)
  \/ \E mute \in BOOLEAN : SetMute(mute)
  \/ \E deaf \in BOOLEAN : SetDeaf(deaf)
  \/ \E channel \in {"channel1"} : SetVoiceChannel(channel)
  \/ \E nick \in {"Bo"} : SetNickname(nick)
  \/ \E newRoles \in TriedRoleArgs : SetRoles(newRoles)
  \/ \E role \in TriedRoles : AddRole(role)
  \/ \E newRoles \in TriedRoleArgs : AddRoles(newRoles)
  \/ \E role \in TriedRoles : RemoveRole(role)
  \/ \E oldRoles \in TriedRoleArgs : RemoveRoles(oldRoles)
  \/ Kick
  \/ \E arg \in TriedDays : Ban(arg)
  \/ \E i \in 1..Len(inflight) : Resolve(i, TriedSnapshots)
  \/ \E i \in 1..Len(inflight) : Reject(i)

Spec == Init /\ [][Next]_vars

\* The derived view: the stored list, the registry and the reads of `roles`.
\* Any list may be stored: what setRoles and addRoles submit is not checked.
ViewSnapshots == {RoleSnapshot(ids) : ids \in AnyRoleLists}

InitView == InitWith(ViewSnapshots)

NextView ==
  \/ \E data \in ViewSnapshots : Refresh(data)
  \/ \E id \in RoleIDs : GuildRolesSet(id)
  \/ \E id \in RoleIDs : GuildRolesDelete(id)
  \/ ReadRoles

SpecView == InitView /\ [][NextView]_vars

\* Refreshes with snapshots that vary in every field, and voice activity.
InitRefresh == InitWith(FullSnapshots)

NextRefresh ==
  \/ \E data \in FullSnapshots : Refresh(data)
  \/ \E speaking \in BOOLEAN : VoiceActivity(speaking)

SpecRefresh == InitRefresh /\ [][NextRefresh]_vars

\* addRoles([A, B]) followed by removeRoles([A]) on a member holding the
\* platform's list L0, with the executor answering in any order.
InitScenario ==
  /\ \E L0 \in CallerRoleLists :
       \E A, B \in CallerIDs :
         /\ A # B
         /\ this = setup(constructor, RoleSnapshot(L0))
         /\ caller = [pc |-> "add", A |-> A, B |-> B, L0 |-> L0,
                      addReq |-> <<>>, removeReq |-> <<>>,
                      answers |-> <<>>, sequential |-> FALSE]
  /\ guild = [id |-> GuildID, roles |-> <<>>]
  /\ inflight = <<>>
  /\ lastOp = "constructor"
  /\ views = <<>>
  /\ applied = [data |-> <<>>, allChanged |-> FALSE]

NextScenario ==
  \/ CallerAdd
  \/ CallerRemove
  \/ \E i \in 1..Len(inflight) : Resolve(i, PlatformSnapshots)
  \/ \E i \in 1..Len(inflight) : Reject(i)

SpecScenario == InitScenario /\ [][NextScenario]_vars

-----------------------------------------------------------------------------
(* Claims *)

\* the result of the last read of `roles`
LastView == views[Len(views)]

Resolves(id) == id \in DOMAIN guild.roles

\* s without the later occurrences of its elements
RECURSIVE FirstOccurrences(_)
FirstOccurrences(s) ==
  IF s = <<>> THEN <<>>
  ELSE LET front == FirstOccurrences(SubSeq(s, 1, Len(s) - 1))
       IN IF s[Len(s)] \in Range(front) THEN front ELSE Append(front, s[Len(s)])

\* C1 as claimed: whenever `roles` has been read, the result holds an entry
\* keyed by the guild's own ID.
C1_AlwaysDefaultRole ==
  lastOp = "roles" => GuildID \in Range(Keys(LastView))

\* C1 amended: the result of a read of `roles` holds an entry keyed by the
\* guild's own ID exactly when the registry holds a role under that ID at the
\* time of the read.
C1_DefaultRoleIffRegistered ==
  lastOp = "roles" => (GuildID \in Range(Keys(LastView)) <=> Resolves(GuildID))

\* C1 witness: with a non-empty stored list, a read without the default role
\* (registry not holding it) is followed by a read with it.
C1_Witness ==
  /\ lastOp = "roles"
  /\ Len(views) = 2
  /\ this._roles # <<>>
  /\ GuildID \notin Range(this._roles)
  /\ GuildID \notin Range(Keys(views[1]))
  /\ GuildID \in Range(Keys(views[2]))

\* C2 as claimed: the keys of the result are the guild's ID followed by the
\* stored IDs that resolve, in stored order.
C2_GuildFirstThenStored ==
  lastOp = "roles" =>
    Keys(LastView) = <<GuildID>> \o SelectSeq(this._roles, Resolves)

\* C2 amended: the keys of the result are the guild's ID if it resolves,
\* followed by the stored IDs that resolve, in stored order, each key once at
\* its first position; each key maps to the registry's role.
C2_ResolvedInOrder ==
  lastOp = "roles" =>
    /\ Keys(LastView) =
         FirstOccurrences((IF Resolves(GuildID) THEN <<GuildID>> ELSE <<>>)
                            \o SelectSeq(this._roles, Resolves))
    /\ \A i \in 1..Len(LastView) : LastView[i].value = guild.roles[LastView[i].key]

\* C2 witness: stored [R1, R2] read against the registry {G, R1} gives [G, R1].
C2_Witness ==
  /\ lastOp = "roles"
  /\ this._roles = <<"R1", "R2">>
  /\ DOMAIN guild.roles = {"G", "R1"}
  /\ Keys(LastView) = <<"G", "R1">>

\* C3: of two reads of `roles` with no setup between them, the second holds no
\* ID the registry has lost since the first, and holds every stored ID the
\* registry has gained.
C3_LiveView ==
  (lastOp = "roles" /\ Len(views) = 2) =>
    \A id \in RoleIDs :
      /\ (id \in Range(Keys(views[1])) /\ ~Resolves(id))
           => id \notin Range(Keys(views[2]))
      /\ (id \notin Range(Keys(views[1])) /\ Resolves(id) /\ id \in Range(this._roles))
           => id \in Range(Keys(views[2]))

\* C3 witness: between two reads one role left the result and another entered it.
C3_Witness ==
  /\ lastOp = "roles"
  /\ Len(views) = 2
  /\ \E id \in RoleIDs : id \in Range(Keys(views[1])) /\ id \notin Range(Keys(views[2]))
  /\ \E id \in RoleIDs : id \notin Range(Keys(views[1])) /\ id \in Range(Keys(views[2]))

\* C4 as claimed: the stored list holds no ID twice and never the guild's ID.
C4_StoredListWellFormed ==
  NoDuplicates(this._roles) /\ GuildID \notin Range(this._roles)

\* the role IDs of the request submitted last
SubmittedIDs(requests) == EntryIDs(requests[Len(requests)].data.roles.items)

\* C5 as claimed: addRoles(A) on the stored list L submits L followed by the
\* elements of A that are not in L, each once, in argument order; addRole(x)
\* submits what addRoles([x]) does.
C5_SubmitsUnion ==
  [][/\ \A newRoles \in TriedRoleArgs :
          AddRoles(newRoles) =>
            SubmittedIDs(inflight') =
              FirstOccurrences(this._roles \o EntryIDs(newRoles.items))
     /\ \A role \in TriedRoles :
          AddRole(role) =>
            SubmittedIDs(inflight') = FirstOccurrences(this._roles \o <<role.id>>)]_vars

\* the calling script is through: both calls made, both answered with success
Done ==
  /\ caller.pc = "done"
  /\ inflight = <<>>
  /\ Len(caller.answers) = 2
  /\ \A i \in 1..2 : caller.answers[i].ok

NotA(id) == id # caller.A

\* C6 as claimed: however the calls and the answers interleave, the stored
\* list ends holding B, not holding A, with B behind the entries that were
\* there before, in their order.
C6_AnyInterleaving ==
  Done =>
    /\ caller.B \in Range(this._roles)
    /\ caller.A \notin Range(this._roles)
    /\ SelectSeq(this._roles, NotA) = SelectSeq(caller.L0 \o <<caller.B>>, NotA)

\* C6 amended: when removeRoles([A]) is called after the answer to
\* addRoles([A, B]) was applied, the stored list ends holding B behind the
\* entries that were there before, in their order; it holds A exactly when A
\* was stored before the first call.
C6_Sequential ==
  (Done /\ caller.sequential) =>
    /\ caller.B \in Range(this._roles)
    /\ caller.A \in Range(this._roles) <=> caller.A \in Range(caller.L0)
    /\ SelectSeq(this._roles, NotA) = SelectSeq(caller.L0 \o <<caller.B>>, NotA)

\* C6 witness: the calls made in sequence on a list holding neither A nor B.
C6_Witness ==
  /\ Done
  /\ caller.sequential
  /\ caller.L0 # <<>>
  /\ {caller.A, caller.B} \cap Range(caller.L0) = {}
  /\ this._roles = caller.L0 \o <<caller.B>>

\* C7: a setup leaves every owned field with the value of the snapshot applied,
\* whatever was there before, and leaves `speaking` as it was.
C7_RefreshOverwrites ==
  [][lastOp' = "setup" =>
       LET data == applied'.data[1]
       IN /\ this'.serverDeaf = data.deaf
          /\ this'.serverMute = data.mute
          /\ this'.selfMute = data.self_mute
          /\ this'.selfDeaf = data.self_deaf
          /\ this'.voiceSessionID = data.session_id
          /\ this'.voiceChannelID = data.channel_id
          /\ this'.nickname = data.nick
          /\ this'.user = data.user
          /\ this'._roles = data.roles
          /\ Get(this', "speaking") = Get(this, "speaking")]_vars

\* C7 witness: a second snapshot, different from the first in every field, was
\* applied to a member that is speaking.
C7_Witness ==
  /\ lastOp = "setup"
  /\ applied.allChanged
  /\ applied.data[1].nick = Undefined
  /\ this.speaking = <<TRUE>>

\* C8 as claimed: once set, the join time is not changed by any later step, and
\* joinDate gives the same instant.
C8_JoinTimeSetOnce ==
  [][("_joinDate" \in DOMAIN this) =>
       (this'._joinDate = this._joinDate /\ joinDate(this') = joinDate(this))]_vars

\* the names of the mutation methods
MutationMethods ==
  {"setMute", "setDeaf", "setVoiceChannel", "setNickname", "setRoles", "addRole",
   "addRoles", "removeRole", "removeRoles", "kick", "ban"}

\* C9: a call of a mutation method adds one request to those in flight and
\* leaves the member as it was; so does a failure reported by the executor;
\* the member changes only by a setup.
C9_OnlyRefreshChangesMember ==
  [][/\ lastOp' \in MutationMethods =>
          /\ this' = this
          /\ Len(inflight') = Len(inflight) + 1
          /\ SubSeq(inflight', 1, Len(inflight)) = inflight
     /\ lastOp' = "rejected" => this' = this /\ Len(inflight') = Len(inflight) - 1
     /\ this' # this => lastOp' \in {"setup", "resolved"}]_vars

\* C9 witness: removeRoles has submitted a list shorter than the stored one,
\* which is still in flight.
C9_Witness ==
  /\ lastOp = "removeRoles"
  /\ inflight # <<>>
  /\ this._roles # <<>>
  /\ Len(SubmittedIDs(inflight)) < Len(this._roles)

\* C10 as claimed: every ban request in flight carries a day count from 0 to 7.
C10_DaysInRange ==
  \A i \in 1..Len(inflight) :
    inflight[i].method = "banGuildMember"
      => inflight[i].deleteDays \in 0..MaxDeleteDays

====
